---- MODULE Spec2Model ----
(***************************************************************************)
(* Model of stream_alert_cli/config.py (CLIConfig) and                     *)
(* stream_alert_cli/terraform/athena.py (generate_athena).                 *)
(*                                                                         *)
(* A text value is a sequence of chunks; the placeholder PREFIX_GOES_HERE  *)
(* is one chunk, an account id is a sequence of single characters.         *)
(* A Python object is a tagged record: str, bool, list, dict (a function,  *)
(* no order) or odict (collections.OrderedDict: a sequence of key/value    *)
(* pairs).  A JSON document on disk is a tagged record too: string,        *)
(* literal, array, or object (the members in the order they are written).  *)
(***************************************************************************)
EXTENDS Integers, Sequences, FiniteSets, TLC

VARIABLES config, disk, status, last, athena_dict

vars == <<config, disk, status, last, athena_dict>>

----------------------------------------------------------------------------
(* Python objects and JSON documents *)

Str(s) == [t |-> "str", v |-> s]

Bool(b) == [t |-> "bool", v |-> b]

List(s) == [t |-> "list", v |-> s]

Dict(f) == [t |-> "dict", v |-> f]

OrderedDict(p) == [t |-> "odict", v |-> p]

NoDict == [k \in {} |-> k]

JString(s) == [t |-> "string", v |-> s]

JLiteral(b) == [t |-> "literal", v |-> b]

JArray(s) == [t |-> "array", v |-> s]

JObject(p) == [t |-> "object", v |-> p]

(* Every key of the modelled files, in the order Python compares str. *)
KeyOrder ==
    << "account", "add_hive_partition", "alert_processor_config",
       "athena_partition_refresh_config", "aws_account_id", "bucket-a",
       "bucket-b", "bucket-c", "csv_test", "current_version", "enable_metrics", "enabled",
       "handler", "id", "infrastructure", "json_test", "key1", "key10",
       "key9", "key_01", "key_02", "log_level", "memory", "metrics",
       "note", "parser", "prefix", "refresh_type", "region",
       "repair_hive_table", "rule_processor_config", "schema",
       "source_bucket", "source_current_hash", "source_object_key",
       "terraform", "tfstate_bucket", "tfstate_s3_key",
       "third_party_libraries", "timeout" >>

(* sorted(keys) *)
SortedKeys(ks) == SelectSeq(KeyOrder, LAMBDA k : k \in ks)

(* The iteration order of a plain dict: fixed by the interpreter, not by   *)
(* the program.                                                            *)
RECURSIVE DictOrder(_)
DictOrder(ks) ==
    IF ks = {} THEN <<>>
    ELSE LET m == CHOOSE k \in ks : TRUE
         IN  <<m>> \o DictOrder(ks \ {m})

OdKeys(p) == {p[i][1] : i \in DOMAIN p}

OdGet(p, k) == p[CHOOSE i \in DOMAIN p : p[i][1] = k][2]

(* OrderedDict.__setitem__: a known key keeps its position. *)
OdSet(p, k, x) ==
    IF k \in OdKeys(p)
    THEN [i \in DOMAIN p |-> IF p[i][1] = k THEN <<k, x>> ELSE p[i]]
    ELSE Append(p, <<k, x>>)

RECURSIVE OdFromPairs(_)
OdFromPairs(p) ==
    IF p = <<>> THEN <<>>
    ELSE LET n == Len(p)
         IN  OdSet(OdFromPairs(SubSeq(p, 1, n - 1)), p[n][1], p[n][2])

(* json.dumps(obj, sort_keys=...) *)
RECURSIVE dumps(_, _)
dumps(obj, sort_keys) ==
    CASE obj.t = "str" -> JString(obj.v)
      [] obj.t = "bool" -> JLiteral(obj.v)
      [] obj.t = "list" ->
            JArray([i \in DOMAIN obj.v |-> dumps(obj.v[i], sort_keys)])
      [] obj.t = "dict" ->
            LET ks == IF sort_keys THEN SortedKeys(DOMAIN obj.v)
                      ELSE DictOrder(DOMAIN obj.v)
            IN  JObject([i \in DOMAIN ks |->
                            <<ks[i], dumps(obj.v[ks[i]], sort_keys)>>])
      [] obj.t = "odict" ->
            IF sort_keys
            THEN LET ks == SortedKeys(OdKeys(obj.v))
                 IN  JObject([i \in DOMAIN ks |->
                        <<ks[i], dumps(OdGet(obj.v, ks[i]), sort_keys)>>])
            ELSE JObject([i \in DOMAIN obj.v |->
                        <<obj.v[i][1], dumps(obj.v[i][2], sort_keys)>>])

(* json.load(data) and json.load(data, object_pairs_hook=OrderedDict) *)
RECURSIVE loads(_, _)
loads(doc, ordered) ==
    CASE doc.t = "string" -> Str(doc.v)
      [] doc.t = "literal" -> Bool(doc.v)
      [] doc.t = "array" ->
            List([i \in DOMAIN doc.v |-> loads(doc.v[i], ordered)])
      [] doc.t = "object" ->
            LET p == [i \in DOMAIN doc.v |->
                        <<doc.v[i][1], loads(doc.v[i][2], ordered)>>]
            IN  IF ordered
                THEN OrderedDict(OdFromPairs(p))
                ELSE Dict([k \in OdKeys(p) |-> OdGet(OdFromPairs(p), k)])

----------------------------------------------------------------------------
(* The configuration directory: a file is <<directory, stem, extension>>.  *)

ConfFile(key) == <<"conf", key, "json">>

ClusterFile(key) == <<"clusters", key, "json">>

(* CLIConfig._config_writer: open(path, 'r+') needs the file to exist. *)
CanOpen(dsk, path) == path \in DOMAIN dsk

_config_writer(dsk, value, path, sort_keys) ==
    [dsk EXCEPT ![path] = dumps(value, sort_keys)]

(* CLIConfig._config_reader for a file that exists: the logs are loaded as *)
(* OrderedDict.                                                            *)
OrderedFor(key) == key = "logs"

_config_reader(dsk, key, path) == loads(dsk[path], OrderedFor(key))

_cluster_reader(dsk, path) == loads(dsk[path], FALSE)

(* CLIConfig.load: the *.json files of the directory, then every file of   *)
(* clusters/.                                                              *)
load(dsk) ==
    LET config_files == {f \in DOMAIN dsk : f[1] = "conf" /\ f[3] = "json"}
        cluster_files == {f \in DOMAIN dsk : f[1] = "clusters"}
        keys == {f[2] : f \in config_files}
        ckeys == {f[2] : f \in cluster_files}
        clusters == [c \in ckeys |->
                        _cluster_reader(dsk,
                            CHOOSE f \in cluster_files : f[2] = c)]
    IN  [k \in keys \cup {"clusters"} |->
            IF k \in keys
            THEN _config_reader(dsk, k, ConfFile(k))
            ELSE Dict(clusters)]

SectionKeys(cfg) == DOMAIN cfg \ {"clusters"}

ClusterKeys(cfg) == DOMAIN cfg["clusters"].v

(* CLIConfig.write: sort_keys=False for the logs, the default elsewhere *)
SortKeysAlways(key) == TRUE

SortKeysFor(key) == key # "logs"

WriteSections(cfg, dsk, keys) ==
    [f \in DOMAIN dsk |->
        IF f[1] = "conf" /\ f[3] = "json" /\ f[2] \in keys
        THEN _config_writer(dsk, cfg[f[2]], f, SortKeysFor(f[2]))[f]
        ELSE dsk[f]]

WriteClusters(cfg, dsk, keys) ==
    [f \in DOMAIN dsk |->
        IF f[1] = "clusters" /\ f[3] = "json" /\ f[2] \in keys
        THEN _config_writer(dsk, cfg["clusters"].v[f[2]], f, TRUE)[f]
        ELSE dsk[f]]

(* CLIConfig.write: the sections in the iteration order of the dict, then  *)
(* the clusters.  The first file that cannot be opened raises IOError and  *)
(* ends the loop, so the files written are those of the keys iterated      *)
(* before it; that order belongs to the interpreter, so every set of keys  *)
(* with a file is a possible outcome.                                      *)
write(cfg, dsk) ==
    LET present == {k \in SectionKeys(cfg) : CanOpen(dsk, ConfFile(k))}
        cpresent == {c \in ClusterKeys(cfg) : CanOpen(dsk, ClusterFile(c))}
    IN  IF present # SectionKeys(cfg)
        THEN {[disk |-> WriteSections(cfg, dsk, w), raised |-> TRUE] :
                w \in SUBSET present}
        ELSE IF cpresent # ClusterKeys(cfg)
        THEN {[disk |-> WriteClusters(cfg,
                            WriteSections(cfg, dsk, present), w),
               raised |-> TRUE] : w \in SUBSET cpresent}
        ELSE {[disk |-> WriteClusters(cfg,
                            WriteSections(cfg, dsk, present), cpresent),
               raised |-> FALSE]}

----------------------------------------------------------------------------
(* Text *)

Sentinel == <<"PREFIX_GOES_HERE">>

(* str.replace(old, new): the occurrences of old, leftmost first *)
RECURSIVE Replace(_, _, _)
Replace(s, old, new) ==
    IF Len(s) < Len(old) THEN s
    ELSE IF SubSeq(s, 1, Len(old)) = old
    THEN new \o Replace(SubSeq(s, Len(old) + 1, Len(s)), old, new)
    ELSE <<s[1]>> \o Replace(Tail(s), old, new)

Contains(s, old) ==
    \E i \in 1..Len(s) :
        i + Len(old) - 1 <= Len(s) /\ SubSeq(s, i, i + Len(old) - 1) = old

ReplaceStr(o, old, new) == Str(Replace(o.v, old, new))

(* dict[key] = value *)
Put(d, k, x) == [a \in DOMAIN d \cup {k} |-> IF a = k THEN x ELSE d[a]]

(* dict.get(key, default) *)
Get(d, k, default) == IF k \in DOMAIN d.v THEN d.v[k] ELSE default

AthenaKey == "athena_partition_refresh_config"

----------------------------------------------------------------------------
(* The mutations of CLIConfig, on the in-memory config.  Each gives the    *)
(* new config and whether write() is called.                               *)

athena_config_template ==
    Dict([enabled |-> Bool(TRUE),
          enable_metrics |-> Bool(FALSE),
          current_version |-> Str(<<"$LATEST">>),
          refresh_type |-> Dict([add_hive_partition |-> Dict(NoDict),
                                 repair_hive_table |-> Dict(NoDict)]),
          handler |->
              Str(<<"stream_alert.athena_partition_refresh.main.handler">>),
          timeout |-> Str(<<"60">>),
          memory |-> Str(<<"128">>),
          log_level |-> Str(<<"info">>),
          source_bucket |-> Str(Sentinel \o <<".streamalert.source">>),
          source_current_hash |-> Str(<<"<auto_generated>">>),
          source_object_key |-> Str(<<"<auto_generated>">>),
          third_party_libraries |-> List(<<Str(<<"backoff">>)>>)])

HasAthena(cfg) == AthenaKey \in DOMAIN cfg["lambda"].v

(* CLIConfig.generate_athena *)
generate_athena_Overwrite(cfg) ==
    LET src == IF cfg["global"].v["account"].v["prefix"] # Str(Sentinel)
               THEN cfg["lambda"].v["rule_processor_config"].v["source_bucket"]
               ELSE athena_config_template.v["source_bucket"]
        tpl == Dict([athena_config_template.v EXCEPT !["source_bucket"] = src])
    IN  [config |-> [cfg EXCEPT !["lambda"].v = Put(@, AthenaKey, tpl)],
         write |-> TRUE, result |-> "ok"]

generate_athena(cfg) ==
    IF HasAthena(cfg)
    THEN [config |-> cfg, write |-> FALSE, result |-> "skipped"]
    ELSE LET src ==
                IF cfg["global"].v["account"].v["prefix"] # Str(Sentinel)
                THEN cfg["lambda"].v["rule_processor_config"]
                        .v["source_bucket"]
                ELSE athena_config_template.v["source_bucket"]
             tpl == Dict([athena_config_template.v
                            EXCEPT !["source_bucket"] = src])
         IN  [config |-> [cfg EXCEPT !["lambda"].v = Put(@, AthenaKey, tpl)],
              write |-> TRUE, result |-> "ok"]

(* CLIConfig.set_athena_lambda_enable *)
set_athena_lambda_enable_Create(cfg) ==
    [config |->
        [cfg EXCEPT !["lambda"].v =
            Put(@, AthenaKey,
                Dict(Put(IF HasAthena(cfg) THEN cfg["lambda"].v[AthenaKey].v
                         ELSE NoDict, "enabled", Bool(TRUE))))],
     write |-> TRUE, result |-> "ok"]

set_athena_lambda_enable(cfg) ==
    IF ~HasAthena(cfg)
    THEN [config |-> cfg, write |-> FALSE, result |-> "rejected"]
    ELSE [config |->
            [cfg EXCEPT !["lambda"].v[AthenaKey].v =
                Put(@, "enabled", Bool(TRUE))],
          write |-> TRUE, result |-> "ok"]

(* isinstance(prefix, (unicode, str)) *)
IsText(o) == o.t \in {"unicode", "str"}

TargetFields ==
    {<<"global", "terraform", "tfstate_bucket">>,
     <<"lambda", "alert_processor_config", "source_bucket">>,
     <<"lambda", "rule_processor_config", "source_bucket">>}

Field(cfg, f) == cfg[f[1]].v[f[2]].v[f[3]]

SetField(cfg, f, x) == [cfg EXCEPT ![f[1]].v[f[2]].v[f[3]] = x]

(* set_prefix, were it to substitute the Athena source bucket as well *)
SubstitutePrefixEverywhere(cfg, prefix) ==
    LET c == [cfg EXCEPT
                !["global"].v["account"].v = Put(@, "prefix", prefix),
                !["global"].v["terraform"].v["tfstate_bucket"] =
                    ReplaceStr(@, Sentinel, prefix.v),
                !["lambda"].v["alert_processor_config"].v["source_bucket"] =
                    ReplaceStr(@, Sentinel, prefix.v),
                !["lambda"].v["rule_processor_config"].v["source_bucket"] =
                    ReplaceStr(@, Sentinel, prefix.v)]
    IN  IF HasAthena(c)
        THEN [c EXCEPT !["lambda"].v[AthenaKey].v["source_bucket"] =
                ReplaceStr(@, Sentinel, prefix.v)]
        ELSE c

(* set_prefix, were it to rename the prefix already substituted *)
SubstitutePrefixRename(cfg, prefix) ==
    LET old == cfg["global"].v["account"].v["prefix"].v
        sub(o) == IF old = <<>> THEN ReplaceStr(o, Sentinel, prefix.v)
                  ELSE ReplaceStr(ReplaceStr(o, Sentinel, prefix.v),
                                  old, prefix.v)
    IN  [cfg EXCEPT
            !["global"].v["account"].v = Put(@, "prefix", prefix),
            !["global"].v["terraform"].v["tfstate_bucket"] = sub(@),
            !["lambda"].v["alert_processor_config"].v["source_bucket"] =
                sub(@),
            !["lambda"].v["rule_processor_config"].v["source_bucket"] =
                sub(@)]

(* the assignments of CLIConfig.set_prefix *)
SubstitutePrefix(cfg, prefix) ==
    [cfg EXCEPT
        !["global"].v["account"].v = Put(@, "prefix", prefix),
        !["global"].v["terraform"].v["tfstate_bucket"] =
            ReplaceStr(@, Sentinel, prefix.v),
        !["lambda"].v["alert_processor_config"].v["source_bucket"] =
            ReplaceStr(@, Sentinel, prefix.v),
        !["lambda"].v["rule_processor_config"].v["source_bucket"] =
            ReplaceStr(@, Sentinel, prefix.v)]

(* CLIConfig.set_prefix *)
set_prefix(cfg, prefix) ==
    IF ~IsText(prefix)
    THEN [config |-> cfg, write |-> FALSE, result |-> "rejected"]
    ELSE [config |-> SubstitutePrefix(cfg, prefix),
          write |-> TRUE, result |-> "ok"]

AccountIdLen == 12

IsDigit(c) == c \in {"0", "1", "2", "3", "4", "5", "6", "7", "8", "9"}

(* the pattern with $ for \Z: a final newline is let through *)
MatchesAccountIdDollar(s) ==
    /\ Len(s) >= AccountIdLen
    /\ \A i \in 1..AccountIdLen : IsDigit(s[i])
    /\ \/ Len(s) = AccountIdLen
       \/ Len(s) = AccountIdLen + 1 /\ s[Len(s)] = "\n"

(* re.search(r'\A\d{12}\Z', aws_account_id) *)
MatchesAccountId(s) ==
    /\ Len(s) >= AccountIdLen
    /\ \A i \in 1..AccountIdLen : IsDigit(s[i])
    /\ Len(s) = AccountIdLen

(* CLIConfig.set_aws_account_id *)
set_aws_account_id(cfg, aws_account_id) ==
    IF ~MatchesAccountId(aws_account_id.v)
    THEN [config |-> cfg, write |-> FALSE, result |-> "rejected"]
    ELSE [config |->
            [cfg EXCEPT !["global"].v["account"].v =
                Put(@, "aws_account_id", aws_account_id)],
          write |-> TRUE, result |-> "ok"]

(* CLIConfig.__setitem__ *)
__setitem__(cfg, key, new_value) ==
    [config |-> Put(cfg, key, new_value), write |-> TRUE, result |-> "ok"]

----------------------------------------------------------------------------
(* stream_alert_cli/terraform/athena.py *)

None == [t |-> "NoneType", v |-> <<>>]

(* set(x): the keys of a dict, the elements of a list *)
SetOf(o) ==
    IF o.t = "dict" THEN {Str(<<k>>) : k \in DOMAIN o.v}
    ELSE {o.v[i] : i \in DOMAIN o.v}

(* list(a_set): its elements, each once, in the order of the interpreter *)
RECURSIVE ListOfSet(_)
ListOfSet(S) ==
    IF S = {} THEN <<>>
    ELSE LET m == CHOOSE e \in S : TRUE
         IN  <<m>> \o ListOfSet(S \ {m})

RECURSIVE Concat(_, _)
Concat(refresh_type, names) ==
    IF names = <<>> THEN <<>>
    ELSE LET e == refresh_type.v[Head(names)]
         IN  (IF e.t = "dict" THEN ListOfSet(SetOf(e)) ELSE e.v)
                \o Concat(refresh_type, Tail(names))

(* the loop of lines 32-34: data_buckets.update(set(...)) per refresh type *)
RECURSIVE UpdateAll(_, _, _)
UpdateAll(data_buckets, refresh_type, names) ==
    IF names = <<>> THEN data_buckets
    ELSE UpdateAll(data_buckets \cup SetOf(refresh_type.v[Head(names)]),
                   refresh_type, Tail(names))

DataBucketsConcat(athena_config) ==
    Concat(athena_config.v["refresh_type"],
           DictOrder(DOMAIN athena_config.v["refresh_type"].v))

DataBuckets(athena_config) ==
    ListOfSet(UpdateAll({}, athena_config.v["refresh_type"],
                        DictOrder(DOMAIN athena_config.v["refresh_type"].v)))

(* generate_athena(config) of terraform/athena.py *)
terraform_generate_athena(cfg) ==
    LET athena_config == cfg["lambda"].v[AthenaKey]
        enable_metrics ==
            Get(Get(Get(cfg["global"], "infrastructure", Dict(NoDict)),
                    "metrics", Dict(NoDict)),
                "enabled", Bool(FALSE))
    IN  Dict([module |-> Dict([stream_alert_athena |-> Dict(
            [source |-> Str(<<"modules/tf_stream_alert_athena">>),
             lambda_handler |-> athena_config.v["handler"],
             lambda_memory |-> Get(athena_config, "memory", Str(<<"128">>)),
             lambda_timeout |-> Get(athena_config, "timeout", Str(<<"60">>)),
             lambda_s3_bucket |-> athena_config.v["source_bucket"],
             lambda_s3_key |-> athena_config.v["source_object_key"],
             lambda_log_level |->
                Get(athena_config, "log_level", Str(<<"info">>)),
             athena_data_buckets |-> List(DataBuckets(athena_config)),
             refresh_interval |->
                Get(athena_config, "refresh_interval",
                    Str(<<"rate(10 minutes)">>)),
             current_version |-> athena_config.v["current_version"],
             enable_metrics |-> enable_metrics,
             prefix |-> cfg["global"].v["account"].v["prefix"]])])])

----------------------------------------------------------------------------
(* The files the directory starts with, and the arguments of the calls.    *)

GlobalDoc(prefix) ==
    JObject(<<
        <<"account", JObject(<<
            <<"aws_account_id", JString(<<"AWS_ACCOUNT_ID_GOES_HERE">>)>>,
            <<"prefix", JString(prefix)>>,
            <<"region", JString(<<"us-west-2">>)>> >>)>>,
        <<"terraform", JObject(<<
            <<"tfstate_bucket",
              JString(Sentinel \o <<".streamalert.terraform.state">>)>>,
            <<"tfstate_s3_key",
              JString(<<"stream_alert_state/terraform.tfstate">>)>> >>)>>,
        <<"infrastructure", JObject(<<
            <<"metrics", JObject(<< <<"enabled", JLiteral(TRUE)>> >>)>> >>)>>
    >>)

ProcessorDoc(handler) ==
    JObject(<<
        <<"handler", JString(<<handler>>)>>,
        <<"source_bucket", JString(Sentinel \o <<".streamalert.source">>)>>,
        <<"source_current_hash", JString(<<"<auto_generated>">>)>> >>)

LambdaDoc ==
    JObject(<<
        <<"alert_processor_config",
          ProcessorDoc("stream_alert.alert_processor.main.handler")>>,
        <<"rule_processor_config", ProcessorDoc("unit-test.handler")>> >>)

(* an Athena config whose refresh types list their buckets *)
AthenaWithLists ==
    Dict([athena_config_template.v EXCEPT
            !["enabled"] = Bool(FALSE),
            !["refresh_type"] =
                Dict([add_hive_partition |->
                        List(<<Str(<<"bucket-a">>), Str(<<"bucket-b">>)>>),
                      repair_hive_table |->
                        List(<<Str(<<"bucket-b">>), Str(<<"bucket-c">>)>>)])])

(* an Athena config whose refresh types map bucket to table *)
AthenaWithDicts ==
    Dict([athena_config_template.v EXCEPT
            !["enabled"] = Bool(FALSE),
            !["refresh_type"] =
                Dict([add_hive_partition |->
                        Dict([k \in {"bucket-a", "bucket-b"} |->
                                Str(<<"alerts">>)]),
                      repair_hive_table |->
                        Dict([k \in {"bucket-b"} |-> Str(<<"alerts">>)])])])

LambdaDocWithAthena ==
    JObject(Append(LambdaDoc.v, <<AthenaKey, dumps(AthenaWithLists, TRUE)>>))

LogsDoc ==
    JObject(<<
        <<"json_test", JObject(<<
            <<"parser", JString(<<"json">>)>>,
            <<"schema", JObject(<<
                <<"key_01", JString(<<"integer">>)>>,
                <<"key_02", JString(<<"string">>)>> >>)>> >>)>>,
        <<"csv_test", JObject(<<
            <<"parser", JString(<<"csv">>)>>,
            <<"schema", JObject(<<
                <<"key1", JArray(<<>>)>>,
                <<"key9", JString(<<"boolean">>)>>,
                <<"key10", JString(<<"float">>)>> >>)>> >>)>> >>)

ClusterDoc ==
    JObject(<< <<"region", JString(<<"us-east-1">>)>>,
               <<"id", JString(<<"prod">>)>> >>)

Directory(global, lambda) ==
    (<<"conf", "global", "json">> :> global)
    @@ (<<"conf", "lambda", "json">> :> lambda)
    @@ (<<"conf", "logs", "json">> :> LogsDoc)
    @@ (<<"conf", "README", "md">> :> JString(<<"# conf">>))
    @@ (<<"clusters", "prod", "json">> :> ClusterDoc)

InitialDirectories ==
    {Directory(g, l) :
        g \in {GlobalDoc(Sentinel), GlobalDoc(<<"unit-testing">>)},
        l \in {LambdaDoc, LambdaDocWithAthena}}

PrefixNames == <<"acme", "corp", "org">>

MaxPrefixes == 2

(* the prefixes a caller passes: names, the empty string, the placeholder  *)
(* itself, and a value that is no text                                     *)
Prefixes ==
    {Str(<<PrefixNames[i]>>) : i \in 1..MaxPrefixes}
        \cup {Str(<<>>), Str(Sentinel), [t |-> "int", v |-> <<>>]}

Digits(n) == [i \in 1..n |-> IF i % 2 = 1 THEN "1" ELSE "2"]

AccountIds ==
    {Str(Digits(AccountIdLen)),
     Str(Digits(AccountIdLen - 1)),
     Str(Digits(AccountIdLen + 1)),
     Str(Append(Digits(AccountIdLen - 1), "a")),
     Str(Append(Digits(AccountIdLen), "\n")),
     Str(<<>>)}

(* __setitem__(key, new_value): a section with a file, a section without *)
SetItems ==
    {<<"global", loads(GlobalDoc(<<"acme">>), FALSE)>>,
     <<"lambda", Dict(Put(loads(LambdaDoc, FALSE).v, AthenaKey,
                          AthenaWithDicts))>>,
     <<"outputs", Dict([note |-> Str(<<"aws-s3">>)])>>}

----------------------------------------------------------------------------
(* The state machine.  An exception that leaves a method is caught nowhere *)
(* in the class: it ends the invocation (status = "raised"), and the next  *)
(* one builds a new CLIConfig from the directory.                          *)

Init ==
    /\ disk \in InitialDirectories
    /\ config = load(disk)
    /\ status = "ready"
    /\ last = [op |-> "load", key |-> "", arg |-> None, result |-> "ok"]
    /\ athena_dict = None

(* a mutation r of the config, then write() when the method calls it *)
Perform(op, key, arg, r) ==
    /\ status = "ready"
    /\ config' = r.config
    /\ athena_dict' = None
    /\ IF r.write
       THEN \E w \in write(r.config, disk) :
                /\ disk' = w.disk
                /\ status' = IF w.raised THEN "raised" ELSE "ready"
                /\ last' = [op |-> op, key |-> key, arg |-> arg,
                            result |-> IF w.raised THEN "IOError"
                                       ELSE r.result]
       ELSE /\ disk' = disk
            /\ status' = "ready"
            /\ last' = [op |-> op, key |-> key, arg |-> arg,
                        result |-> r.result]

(* CLIConfig(config_path=...) *)
Load ==
    /\ config' = load(disk)
    /\ status' = "ready"
    /\ last' = [op |-> "load", key |-> "", arg |-> None, result |-> "ok"]
    /\ athena_dict' = None
    /\ UNCHANGED disk

Save ==
    Perform("write", "", None,
            [config |-> config, write |-> TRUE, result |-> "ok"])

Set ==
    \E kv \in SetItems :
        Perform("__setitem__", kv[1], kv[2],
                __setitem__(config, kv[1], kv[2]))

GenerateAthenaDefaults ==
    Perform("generate_athena", "", None, generate_athena(config))

EnableAthenaRefresh ==
    Perform("set_athena_lambda_enable", "", None,
            set_athena_lambda_enable(config))

SetPrefix ==
    \E prefix \in Prefixes :
        Perform("set_prefix", "", prefix, set_prefix(config, prefix))

SetAccountId ==
    \E id \in AccountIds :
        Perform("set_aws_account_id", "", id, set_aws_account_id(config, id))

(* config['lambda']['athena_partition_refresh_config'] raises KeyError     *)
(* when the Athena config is missing.                                      *)
GenerateAthenaModule ==
    /\ status = "ready"
    /\ UNCHANGED <<config, disk>>
    /\ IF HasAthena(config)
       THEN /\ athena_dict' = terraform_generate_athena(config)
            /\ status' = "ready"
            /\ last' = [op |-> "terraform", key |-> "", arg |-> None,
                        result |-> "ok"]
       ELSE /\ athena_dict' = None
            /\ status' = "raised"
            /\ last' = [op |-> "terraform", key |-> "", arg |-> None,
                        result |-> "KeyError"]

Next ==
    \/ Load
    \/ Save
    \/ Set
    \/ GenerateAthenaDefaults
    \/ EnableAthenaRefresh
    \/ SetPrefix
    \/ SetAccountId
    \/ GenerateAthenaModule

Spec == Init /\ [][Next]_vars

----------------------------------------------------------------------------
(* Vocabulary of the properties *)

Range(q) == {q[i] : i \in DOMAIN q}

NoDuplicates(q) == \A i, j \in DOMAIN q : i # j => q[i] # q[j]

Ok(l, op) == l.op = op /\ l.result = "ok"

DiskMatchesMemory(cfg, dsk) == load(dsk) = cfg

AccountPrefix(cfg) == cfg["global"].v["account"].v["prefix"]

AccountId(cfg) == cfg["global"].v["account"].v["aws_account_id"]

Athena(cfg) == cfg["lambda"].v[AthenaKey]

Blank == Str(<<"-">>)

RECURSIVE BlankFields(_, _)
BlankFields(cfg, fs) ==
    IF fs = {} THEN cfg
    ELSE LET f == CHOOSE g \in fs : TRUE
         IN  BlankFields(SetField(cfg, f, Blank), fs \ {f})

PrefixField == <<"global", "account", "prefix">>

(* the paths of the text fields of an object that hold the placeholder *)
RECURSIVE SentinelPaths(_)
SentinelPaths(o) ==
    CASE o.t = "str" -> IF Contains(o.v, Sentinel) THEN {<<>>} ELSE {}
      [] o.t = "dict" ->
            UNION {{<<k>> \o q : q \in SentinelPaths(o.v[k])} :
                    k \in DOMAIN o.v}
      [] o.t = "odict" ->
            UNION {{<<o.v[i][1]>> \o q : q \in SentinelPaths(o.v[i][2])} :
                    i \in DOMAIN o.v}
      [] o.t = "list" ->
            UNION {{<<ToString(i)>> \o q : q \in SentinelPaths(o.v[i])} :
                    i \in DOMAIN o.v}
      [] OTHER -> {}

SentinelFields(cfg) == SentinelPaths(Dict(cfg))

LogsLoaded == loads(LogsDoc, TRUE)

SchemaOrder(logs, name) ==
    LET schema == OdGet(OdGet(logs.v, name).v, "schema")
    IN  [i \in DOMAIN schema.v |-> schema.v[i][1]]

----------------------------------------------------------------------------
(* C1: a save after a load writes files that load to the same config; the  *)
(* logs on disk always load to the logs in memory, their schemas in the    *)
(* order of the file first read, whatever other section was changed        *)
(* between the load and the save.                                          *)
C1_RoundTrip ==
    /\ [](/\ Ok(last, "write") => DiskMatchesMemory(config, disk)
          /\ load(disk)["logs"] = config["logs"]
          /\ config["logs"] = LogsLoaded
          /\ SchemaOrder(load(disk)["logs"], "csv_test")
                = <<"key1", "key9", "key10">>)
    /\ [][last.op = "load" /\ last'.op = "write"
            => /\ last'.result = "ok"
               /\ config' = config
               /\ load(disk') = config]_vars

C1_Witness ==
    /\ Ok(last, "write")
    /\ disk[ConfFile("logs")] = LogsDoc
    /\ AccountPrefix(config) = Str(<<"acme">>)
    /\ HasAthena(config)

(* C2: once __setitem__ has returned or raised, the files hold what the    *)
(* memory holds.                                                           *)
C2_SetPersists ==
    last.op = "__setitem__" => DiskMatchesMemory(config, disk)

(* C3 as claimed: a successful set_prefix changes the three bucket fields  *)
(* and nothing else.                                                       *)
C3_OnlyThreeFields ==
    [][Ok(last', "set_prefix")
        => /\ \A f \in TargetFields :
                Field(config', f)
                    = ReplaceStr(Field(config, f), Sentinel, last'.arg.v)
           /\ BlankFields(config', TargetFields)
                = BlankFields(config, TargetFields)]_vars

(* C3 amended: a successful set_prefix sets global.account.prefix, replaces *)
(* the placeholder in the three bucket fields, and leaves every other      *)
(* field as it was.                                                        *)
C3_ThreeFieldsAndPrefix ==
    [][Ok(last', "set_prefix")
        => /\ \A f \in TargetFields :
                Field(config', f)
                    = ReplaceStr(Field(config, f), Sentinel, last'.arg.v)
           /\ AccountPrefix(config') = last'.arg
           /\ BlankFields(config', TargetFields \cup {PrefixField})
                = BlankFields(config, TargetFields \cup {PrefixField})]_vars

C3_Witness ==
    /\ Ok(last, "set_prefix")
    /\ last.arg = Str(<<"acme">>)
    /\ \A f \in TargetFields : Head(Field(config, f).v) = "acme"
    /\ HasAthena(config)
    /\ Contains(Athena(config).v["source_bucket"].v, Sentinel)

(* C4: set_prefix with a prefix that is no text, or is empty, is refused:  *)
(* config and files stay as they were.                                     *)
C4_RejectsEmptyOrNonText ==
    [][last'.op = "set_prefix" /\ (~IsText(last'.arg) \/ last'.arg.v = <<>>)
        => /\ last'.result = "rejected"
           /\ config' = config
           /\ disk' = disk]_vars

(* C5: set_aws_account_id goes through exactly for a text of 12 digits,    *)
(* then stores it and saves; any other text changes neither config nor     *)
(* files.                                                                  *)
C5_AccountId ==
    [][last'.op = "set_aws_account_id"
        => IF Len(last'.arg.v) = 12
              /\ \A i \in DOMAIN last'.arg.v : IsDigit(last'.arg.v[i])
           THEN /\ last'.result = "ok"
                /\ AccountId(config') = last'.arg
                /\ SetField(config', <<"global", "account", "aws_account_id">>,
                            Blank)
                     = SetField(config, <<"global", "account",
                                          "aws_account_id">>, Blank)
                /\ DiskMatchesMemory(config', disk')
           ELSE /\ last'.result = "rejected"
                /\ config' = config
                /\ disk' = disk]_vars

C5_Witness ==
    /\ Ok(last, "set_aws_account_id")
    /\ AccountId(config) = Str(Digits(12))
    /\ DiskMatchesMemory(config, disk)

(* C6: generate_athena on a config that has an Athena config changes       *)
(* neither config nor files; a second call in a row leaves what the first  *)
(* left.                                                                   *)
C6_GenerateIdempotent ==
    [][last'.op = "generate_athena"
        => /\ HasAthena(config)
                => /\ last'.result = "skipped"
                   /\ config' = config
                   /\ disk' = disk
           /\ last.op = "generate_athena"
                => /\ Athena(config') = Athena(config)
                   /\ disk' = disk]_vars

C6_Witness ==
    /\ last.op = "generate_athena"
    /\ last.result = "skipped"
    /\ Athena(config) = AthenaWithDicts

(* C7: set_athena_lambda_enable without an Athena config reports, creates  *)
(* nothing and writes nothing; with one it sets enabled and saves.         *)
C7_EnableNeedsAthena ==
    [][last'.op = "set_athena_lambda_enable"
        => IF ~HasAthena(config)
           THEN /\ last'.result = "rejected"
                /\ ~HasAthena(config')
                /\ config' = config
                /\ disk' = disk
           ELSE /\ last'.result = "ok"
                /\ Athena(config').v["enabled"] = Bool(TRUE)
                /\ [config' EXCEPT !["lambda"].v[AthenaKey].v["enabled"]
                        = Blank]
                     = [config EXCEPT !["lambda"].v[AthenaKey].v["enabled"]
                        = Blank]
                /\ DiskMatchesMemory(config', disk')]_vars

C7_Witness ==
    /\ last.op = "set_athena_lambda_enable"
    /\ last.result = "rejected"
    /\ ~HasAthena(config)
    /\ ~HasAthena(load(disk))

Listed(athena_config, b) ==
    \E r \in DOMAIN athena_config.v["refresh_type"].v :
        LET e == athena_config.v["refresh_type"].v[r]
        IN  IF e.t = "dict" THEN \E k \in DOMAIN e.v : b = Str(<<k>>)
            ELSE \E i \in DOMAIN e.v : b = e.v[i]

AthenaDataBuckets ==
    athena_dict.v["module"].v["stream_alert_athena"].v["athena_data_buckets"].v

BucketNames == {Str(<<"bucket-a">>), Str(<<"bucket-b">>), Str(<<"bucket-c">>)}

(* C8: athena_data_buckets has no duplicates and holds exactly the buckets *)
(* listed under some refresh type.                                         *)
C8_DataBuckets ==
    Ok(last, "terraform")
        => /\ NoDuplicates(AthenaDataBuckets)
           /\ Range(AthenaDataBuckets) \subseteq BucketNames
           /\ \A b \in BucketNames :
                b \in Range(AthenaDataBuckets) <=> Listed(Athena(config), b)

C8_Witness ==
    /\ Ok(last, "terraform")
    /\ Athena(config).v["refresh_type"] = AthenaWithLists.v["refresh_type"]
    /\ Range(AthenaDataBuckets) = BucketNames
    /\ Len(AthenaDataBuckets) = 3

(* C9: after a successful set_prefix with a prefix free of the placeholder *)
(* no field that held the placeholder still holds it.                      *)
C9_SubstitutesEverywhere ==
    [][Ok(last', "set_prefix") /\ ~Contains(last'.arg.v, Sentinel)
        => SentinelFields(config) \cap SentinelFields(config') = {}]_vars

TargetsFree(cfg) ==
    \A f \in TargetFields : ~Contains(Field(cfg, f).v, Sentinel)

(* C10: a successful set_prefix with a prefix free of the placeholder      *)
(* leaves the three bucket fields free of it; from then on a successful    *)
(* set_prefix changes global.account.prefix only, so the buckets keep the  *)
(* earlier prefix.                                                         *)
C10_SubstitutedOnce ==
    [][Ok(last', "set_prefix")
        => /\ ~Contains(last'.arg.v, Sentinel) => TargetsFree(config')
           /\ TargetsFree(config)
                => /\ config' = SetField(config, PrefixField, last'.arg)
                   /\ \A f \in TargetFields :
                        Field(config', f) = Field(config, f)
           /\ Ok(last, "set_prefix") /\ ~Contains(last.arg.v, Sentinel)
                => /\ AccountPrefix(config') = last'.arg
                   /\ \A f \in TargetFields :
                        Field(config', f) = Field(config, f)]_vars

C10_Witness ==
    /\ Ok(last, "set_prefix")
    /\ last.arg = Str(<<"corp">>)
    /\ AccountPrefix(config) = Str(<<"corp">>)
    /\ \A f \in TargetFields : Head(Field(config, f).v) = "acme"

====
